---- MODULE Spec2Model ----
(***************************************************************************)
(* A model of the storage engine of ajmalmohad/sqlitedb: the pager         *)
(* (pager.c), the node layout (node.c, btree.c), the B-tree insert, leaf   *)
(* split and root creation (btree.c), the cursor (cursor.c) and the row    *)
(* codec (serialize.c).                                                    *)
(*                                                                         *)
(* A page is a sequence of PAGE_SIZE bytes; a C pointer into a page is the *)
(* byte offset from the start of the page (byte offset o is element o+1).  *)
(* uint32_t fields are stored little-endian, as on the x86 hosts the       *)
(* program is built for.                                                   *)
(*                                                                         *)
(* constants.h is not part of the sources at hand.  The layout constants   *)
(* follow the byte layouts of the design document ([type:1][is_root:1]     *)
(* [cell_count:4], [key:4][record], [id:4][username][email]); the text     *)
(* field widths, the page size and the page limit are scaled down so that  *)
(* a leaf holds LEAF_NODE_MAX_CELLS = 4 cells.                             *)
(***************************************************************************)
EXTENDS Integers, Sequences, FiniteSets, TLC

VARIABLES
    file,        \* the bytes of the database file on disk
    pager,       \* the Pager struct; NoPager before pager_open returns
    table,       \* the Table struct (root_page_num); NoTable before it exists
    cursor,      \* the Cursor of the scan in progress; NoCursor if there is none
    scanned,     \* the keys the scan in progress has read so far
    inserted,    \* the (key, row) pairs handed to the insert operations
    fatal,       \* "none", or the fatal error that ended the process
    last_op,     \* the last call of the pager or search session, with its result
    h_unused,    \* pager session: the pending result of get_unused_page_num
    p_calls,     \* pager session: the number of calls made so far
    c_pc,        \* codec: "init", "serialized" or "deserialized"
    c_src,       \* codec: the Row handed to serialize_row
    c_buf,       \* codec: the destination buffer of serialize_row
    c_dst        \* codec: the Row filled by deserialize_row; NoRow before

vars == <<file, pager, table, cursor, scanned, inserted, fatal, last_op,
          h_unused, p_calls, c_pc, c_src, c_buf, c_dst>>

\* the variables of the pager session and of the codec
other_vars == <<last_op, h_unused, p_calls, c_pc, c_src, c_buf, c_dst>>

(***************************************************************************)
(* Bounds of the model.                                                    *)
(***************************************************************************)
\* the keys handed to the insert path are 1..MaxKey
MaxKey == 5
\* the keys handed to inserts below the root are the next MaxChildKeys
MaxChildKeys == 2
\* get_page is called with page numbers 0..TABLE_MAX_PAGES-1+MaxPageOver
MaxPageOver == 1
\* the pager session makes at most MaxCalls calls
MaxCalls == 6
\* the leaves searched hold keys among 1..MaxFindKey
MaxFindKey == 9
\* cursor_advance is not called once cell_num exceeds the cell count by this
MaxOverrun == 1

(***************************************************************************)
(* Program constants (constants.h).                                        *)
(***************************************************************************)
ID_SIZE == 4
USERNAME_SIZE == 2
EMAIL_SIZE == 2
ID_OFFSET == 0
USERNAME_OFFSET == ID_OFFSET + ID_SIZE
EMAIL_OFFSET == USERNAME_OFFSET + USERNAME_SIZE
ROW_SIZE == ID_SIZE + USERNAME_SIZE + EMAIL_SIZE

PAGE_SIZE == 54
TABLE_MAX_PAGES == 4

NODE_INTERNAL == 0
NODE_LEAF == 1

NODE_TYPE_SIZE == 1
NODE_TYPE_OFFSET == 0
IS_ROOT_SIZE == 1
IS_ROOT_OFFSET == NODE_TYPE_SIZE
COMMON_NODE_HEADER_SIZE == NODE_TYPE_SIZE + IS_ROOT_SIZE

LEAF_NODE_NUM_CELLS_SIZE == 4
LEAF_NODE_NUM_CELLS_OFFSET == COMMON_NODE_HEADER_SIZE
LEAF_NODE_HEADER_SIZE == COMMON_NODE_HEADER_SIZE + LEAF_NODE_NUM_CELLS_SIZE

LEAF_NODE_KEY_SIZE == 4
LEAF_NODE_VALUE_SIZE == ROW_SIZE
LEAF_NODE_CELL_SIZE == LEAF_NODE_KEY_SIZE + LEAF_NODE_VALUE_SIZE
LEAF_NODE_SPACE_FOR_CELLS == PAGE_SIZE - LEAF_NODE_HEADER_SIZE
LEAF_NODE_MAX_CELLS == LEAF_NODE_SPACE_FOR_CELLS \div LEAF_NODE_CELL_SIZE
LEAF_NODE_RIGHT_SPLIT_COUNT == (LEAF_NODE_MAX_CELLS + 1) \div 2
LEAF_NODE_LEFT_SPLIT_COUNT == (LEAF_NODE_MAX_CELLS + 1) - LEAF_NODE_RIGHT_SPLIT_COUNT

INTERNAL_NODE_NUM_KEYS_SIZE == 4
INTERNAL_NODE_NUM_KEYS_OFFSET == COMMON_NODE_HEADER_SIZE
INTERNAL_NODE_RIGHT_CHILD_SIZE == 4
INTERNAL_NODE_RIGHT_CHILD_OFFSET == INTERNAL_NODE_NUM_KEYS_OFFSET + INTERNAL_NODE_NUM_KEYS_SIZE
INTERNAL_NODE_HEADER_SIZE == COMMON_NODE_HEADER_SIZE + INTERNAL_NODE_NUM_KEYS_SIZE + INTERNAL_NODE_RIGHT_CHILD_SIZE
INTERNAL_NODE_KEY_SIZE == 4
INTERNAL_NODE_CHILD_SIZE == 4
INTERNAL_NODE_CELL_SIZE == INTERNAL_NODE_CHILD_SIZE + INTERNAL_NODE_KEY_SIZE

\* sizeof(uint32_t): the stride of arithmetic on a uint32_t pointer
SIZEOF_UINT32 == 4

(***************************************************************************)
(* Bytes and buffers.                                                      *)
(***************************************************************************)
\* a NULL entry of pager->pages
NULL == <<>>
\* no Row
NoRow == [id |-> 0, username |-> <<>>, email |-> <<>>]
\* no Cursor
NoCursor == [active |-> FALSE, page_num |-> 0, cell_num |-> 0, end_of_table |-> FALSE]
\* no Table
NoTable == [open |-> FALSE, root_page_num |-> 0]

\* the bytes buf[off .. off+n-1]
ReadBytes(buf, off, n) == SubSeq(buf, off + 1, off + n)

\* memcpy(buf + off, bytes, Len(bytes))
WriteBytes(buf, off, bytes) ==
    SubSeq(buf, 1, off) \o bytes \o SubSeq(buf, off + Len(bytes) + 1, Len(buf))

\* the little-endian bytes of a uint32_t
U32ToBytes(v) ==
    <<v % 256, (v \div 256) % 256, (v \div 65536) % 256, (v \div 16777216) % 256>>

\* the uint32_t stored in four little-endian bytes
BytesToU32(b) == b[1] + 256 * b[2] + 65536 * b[3] + 16777216 * b[4]

\* *(uint32_t *)(buf + off)
ReadU32(buf, off) == BytesToU32(ReadBytes(buf, off, 4))

\* *(uint32_t *)(buf + off) = v
WriteU32(buf, off, v) == WriteBytes(buf, off, U32ToBytes(v))

\* n bytes of value b
Fill(n, b) == [i \in 1..n |-> b]

(***************************************************************************)
(* serialize.c                                                             *)
(***************************************************************************)
\* the index of the first NUL among the first n bytes of s, or n+1
FirstNul(s, n) ==
    IF \E i \in 1..n : s[i] = 0
    THEN CHOOSE i \in 1..n : s[i] = 0 /\ \A j \in 1..(i - 1) : s[j] # 0
    ELSE n + 1

\* strncpy that always ends the destination with a NUL
StrncpyTerminated(s, n) ==
    [i \in 1..n |-> IF i < FirstNul(s, n) /\ i < n THEN s[i] ELSE 0]

\* the n bytes strncpy(dest, s, n) writes: s up to its NUL, then NUL padding
Strncpy(s, n) == [i \in 1..n |-> IF i < FirstNul(s, n) THEN s[i] ELSE 0]

\* the logical (non-padding) content of a fixed-width text field
Logical(s) == SubSeq(s, 1, FirstNul(s, Len(s)) - 1)

\* serialize_row(source, buf + dest): buf after the call
serialize_row(source, buf, dest) ==
    LET b1 == WriteBytes(buf, dest + ID_OFFSET, U32ToBytes(source.id))
        b2 == WriteBytes(b1, dest + USERNAME_OFFSET, Strncpy(source.username, USERNAME_SIZE))
    IN  WriteBytes(b2, dest + EMAIL_OFFSET, Strncpy(source.email, EMAIL_SIZE))

\* deserialize_row(buf + source, &row): the row after the call
deserialize_row(buf, source) ==
    [id       |-> ReadU32(buf, source + ID_OFFSET),
     username |-> ReadBytes(buf, source + USERNAME_OFFSET, USERNAME_SIZE),
     email    |-> ReadBytes(buf, source + EMAIL_OFFSET, EMAIL_SIZE)]

(***************************************************************************)
(* node.c and the accessors of btree.c.  An accessor that returns a        *)
(* pointer is the byte offset of the field in the page.                    *)
(***************************************************************************)
leaf_node_cell(cell_num) == LEAF_NODE_HEADER_SIZE + cell_num * LEAF_NODE_CELL_SIZE

leaf_node_key(cell_num) == leaf_node_cell(cell_num)

leaf_node_value(cell_num) == leaf_node_cell(cell_num) + LEAF_NODE_KEY_SIZE

\* *leaf_node_num_cells(node)
leaf_node_num_cells(node) == ReadU32(node, LEAF_NODE_NUM_CELLS_OFFSET)

get_node_type(node) == node[NODE_TYPE_OFFSET + 1]

set_node_type(node, type) == WriteBytes(node, NODE_TYPE_OFFSET, <<type>>)

is_node_root(node) == node[IS_ROOT_OFFSET + 1] # 0

set_node_root(node, is_root) ==
    WriteBytes(node, IS_ROOT_OFFSET, <<IF is_root THEN 1 ELSE 0>>)

\* initialize_leaf_node that leaves the root flag as the buffer has it
initialize_leaf_node_KeepsFlag(node) ==
    WriteU32(set_node_type(node, NODE_LEAF), LEAF_NODE_NUM_CELLS_OFFSET, 0)

initialize_leaf_node(node) ==
    WriteU32(set_node_root(set_node_type(node, NODE_LEAF), FALSE),
             LEAF_NODE_NUM_CELLS_OFFSET, 0)

\* initialize_internal_node without the set_node_type
initialize_internal_node_KeepsType(node) ==
    WriteU32(set_node_root(node, FALSE), INTERNAL_NODE_NUM_KEYS_OFFSET, 0)

initialize_internal_node(node) ==
    WriteU32(set_node_root(set_node_type(node, NODE_INTERNAL), FALSE),
             INTERNAL_NODE_NUM_KEYS_OFFSET, 0)

\* *internal_node_num_keys(node)
internal_node_num_keys(node) == ReadU32(node, INTERNAL_NODE_NUM_KEYS_OFFSET)

internal_node_right_child == INTERNAL_NODE_RIGHT_CHILD_OFFSET

internal_node_cell(cell_num) ==
    INTERNAL_NODE_HEADER_SIZE + cell_num * INTERNAL_NODE_CELL_SIZE

\* the offset of child child_num, or "invalid" where the code exits
internal_node_child(node, child_num) ==
    LET num_keys == internal_node_num_keys(node)
    IN  IF child_num > num_keys THEN "invalid"
        ELSE IF child_num = num_keys THEN internal_node_right_child
        ELSE internal_node_cell(child_num)

\* internal_node_cell returns a uint32_t *, so adding INTERNAL_NODE_CHILD_SIZE
\* to it moves by that many uint32_t, not by that many bytes
internal_node_key(key_num) ==
    internal_node_cell(key_num) + SIZEOF_UINT32 * INTERNAL_NODE_CHILD_SIZE

get_node_max_key(node) ==
    IF get_node_type(node) = NODE_INTERNAL
    THEN ReadU32(node, internal_node_key(internal_node_num_keys(node) - 1))
    ELSE ReadU32(node, leaf_node_key(leaf_node_num_cells(node) - 1))

(***************************************************************************)
(* pager.c.  An operation that can end the process returns the pager as    *)
(* the operation left it together with the fatal error, "none" if it       *)
(* returned.                                                               *)
(***************************************************************************)
PageNums == 0..(TABLE_MAX_PAGES - 1)

\* no Pager: pager_open has not returned one
NoPager == [open |-> FALSE, file_length |-> 0, num_pages |-> 0,
            pages |-> [n \in PageNums |-> NULL]]

\* the content of a fresh malloc: zero or not, as the allocator has it
MallocFill == {0, 85}

\* read(fd, page, PAGE_SIZE) at offset off: the bytes the file has there
ReadFile(f, off, page) ==
    LET n == IF Len(f) >= off + PAGE_SIZE THEN PAGE_SIZE
             ELSE IF Len(f) > off THEN Len(f) - off ELSE 0
    IN  SubSeq(f, off + 1, off + n) \o SubSeq(page, n + 1, PAGE_SIZE)

\* lseek(fd, off, SEEK_SET) and write(fd, page, PAGE_SIZE)
WriteFile(f, off, page) ==
    LET head == IF Len(f) >= off THEN SubSeq(f, 1, off)
                ELSE f \o Fill(off - Len(f), 0)
    IN  head \o page \o SubSeq(f, off + PAGE_SIZE + 1, Len(f))

Cached(pg) == {n \in PageNums : pg.pages[n] # NULL}

\* get_page that sets num_pages to page_num + 1 on every cache miss
get_page_AlwaysSetsCount(pg, f, page_num, fill, read_ok) ==
    IF page_num >= TABLE_MAX_PAGES
    THEN [pager |-> pg, fatal |-> "page_out_of_bounds"]
    ELSE IF pg.pages[page_num] = NULL
    THEN LET page0 == Fill(PAGE_SIZE, fill)
             num_pages == (pg.file_length \div PAGE_SIZE)
                          + (IF pg.file_length % PAGE_SIZE # 0 THEN 1 ELSE 0)
             page == IF page_num < num_pages
                     THEN ReadFile(f, page_num * PAGE_SIZE, page0)
                     ELSE page0
         IN  IF page_num < num_pages /\ ~read_ok
             THEN [pager |-> pg, fatal |-> "read_error"]
             ELSE [pager |-> [pg EXCEPT !.pages[page_num] = page,
                                        !.num_pages = page_num + 1],
                   fatal |-> "none"]
    ELSE [pager |-> pg, fatal |-> "none"]

\* get_page whose bounds test also turns away the last page number
get_page_RejectsLastPage(pg, f, page_num, fill, read_ok) ==
    IF page_num >= TABLE_MAX_PAGES - 1
    THEN [pager |-> pg, fatal |-> "page_out_of_bounds"]
    ELSE IF pg.pages[page_num] = NULL
    THEN LET page0 == Fill(PAGE_SIZE, fill)
             num_pages == (pg.file_length \div PAGE_SIZE)
                          + (IF pg.file_length % PAGE_SIZE # 0 THEN 1 ELSE 0)
             page == IF page_num < num_pages
                     THEN ReadFile(f, page_num * PAGE_SIZE, page0)
                     ELSE page0
         IN  IF page_num < num_pages /\ ~read_ok
             THEN [pager |-> pg, fatal |-> "read_error"]
             ELSE [pager |-> [pg EXCEPT !.pages[page_num] = page,
                                        !.num_pages = IF page_num >= pg.num_pages
                                                      THEN page_num + 1
                                                      ELSE pg.num_pages],
                   fatal |-> "none"]
    ELSE [pager |-> pg, fatal |-> "none"]

\* get_page that never touches num_pages
get_page_NeverRaises(pg, f, page_num, fill, read_ok) ==
    IF page_num >= TABLE_MAX_PAGES
    THEN [pager |-> pg, fatal |-> "page_out_of_bounds"]
    ELSE IF pg.pages[page_num] = NULL
    THEN LET page0 == Fill(PAGE_SIZE, fill)
             num_pages == (pg.file_length \div PAGE_SIZE)
                          + (IF pg.file_length % PAGE_SIZE # 0 THEN 1 ELSE 0)
             page == IF page_num < num_pages
                     THEN ReadFile(f, page_num * PAGE_SIZE, page0)
                     ELSE page0
         IN  IF page_num < num_pages /\ ~read_ok
             THEN [pager |-> pg, fatal |-> "read_error"]
             ELSE [pager |-> [pg EXCEPT !.pages[page_num] = page],
                   fatal |-> "none"]
    ELSE [pager |-> pg, fatal |-> "none"]

\* get_page that reads the page from the file again when it is cached
get_page_Rereads(pg, f, page_num, fill, read_ok) ==
    IF page_num >= TABLE_MAX_PAGES
    THEN [pager |-> pg, fatal |-> "page_out_of_bounds"]
    ELSE LET page0 == IF pg.pages[page_num] = NULL
                      THEN Fill(PAGE_SIZE, fill)
                      ELSE pg.pages[page_num]
             num_pages == (pg.file_length \div PAGE_SIZE)
                          + (IF pg.file_length % PAGE_SIZE # 0 THEN 1 ELSE 0)
             page == IF page_num < num_pages
                     THEN ReadFile(f, page_num * PAGE_SIZE, page0)
                     ELSE page0
         IN  IF page_num < num_pages /\ ~read_ok
             THEN [pager |-> pg, fatal |-> "read_error"]
             ELSE [pager |-> [pg EXCEPT !.pages[page_num] = page,
                                        !.num_pages = IF page_num >= pg.num_pages
                                                      THEN page_num + 1
                                                      ELSE pg.num_pages],
                   fatal |-> "none"]

\* get_page(pager, page_num); fill is what malloc hands out, read_ok whether
\* read() succeeds
get_page(pg, f, page_num, fill, read_ok) ==
    IF page_num >= TABLE_MAX_PAGES
    THEN [pager |-> pg, fatal |-> "page_out_of_bounds"]
    ELSE IF pg.pages[page_num] = NULL
    THEN LET page0 == Fill(PAGE_SIZE, fill)
             num_pages == (pg.file_length \div PAGE_SIZE)
                          + (IF pg.file_length % PAGE_SIZE # 0 THEN 1 ELSE 0)
             page == IF page_num < num_pages
                     THEN ReadFile(f, page_num * PAGE_SIZE, page0)
                     ELSE page0
         IN  IF page_num < num_pages /\ ~read_ok
             THEN [pager |-> pg, fatal |-> "read_error"]
             ELSE [pager |-> [pg EXCEPT !.pages[page_num] = page,
                                        !.num_pages = IF page_num >= pg.num_pages
                                                      THEN page_num + 1
                                                      ELSE pg.num_pages],
                   fatal |-> "none"]
    ELSE [pager |-> pg, fatal |-> "none"]

\* pager_open without the test of the file length
pager_open_NoLengthTest(f, open_ok) ==
    IF ~open_ok THEN [pager |-> NoPager, fatal |-> "open_failed"]
    ELSE [pager |-> [open        |-> TRUE,
                     file_length |-> Len(f),
                     num_pages   |-> Len(f) \div PAGE_SIZE,
                     pages       |-> [n \in PageNums |-> NULL]],
          fatal |-> "none"]

\* pager_open(filename) on a file of f bytes: the pager it builds and the
\* fatal error it ends in, if any
pager_open(f, open_ok) ==
    IF ~open_ok THEN [pager |-> NoPager, fatal |-> "open_failed"]
    ELSE IF Len(f) % PAGE_SIZE # 0 THEN [pager |-> NoPager, fatal |-> "corrupt_file"]
    ELSE [pager |-> [open        |-> TRUE,
                     file_length |-> Len(f),
                     num_pages   |-> Len(f) \div PAGE_SIZE,
                     pages       |-> [n \in PageNums |-> NULL]],
          fatal |-> "none"]

\* pager_flush that writes the page at the offset of the file where the seek
\* of page 0 would leave it
pager_flush_NoSeek(pg, f, page_num, seek_ok, write_ok) ==
    IF pg.pages[page_num] = NULL THEN [file |-> f, fatal |-> "flush_null_page"]
    ELSE IF ~seek_ok THEN [file |-> f, fatal |-> "seek_error"]
    ELSE IF ~write_ok THEN [file |-> f, fatal |-> "write_error"]
    ELSE [file |-> WriteFile(f, 0, pg.pages[page_num]),
          fatal |-> "none"]

\* pager_flush(pager, page_num): the file after the call and the fatal error
pager_flush(pg, f, page_num, seek_ok, write_ok) ==
    IF pg.pages[page_num] = NULL THEN [file |-> f, fatal |-> "flush_null_page"]
    ELSE IF ~seek_ok THEN [file |-> f, fatal |-> "seek_error"]
    ELSE IF ~write_ok THEN [file |-> f, fatal |-> "write_error"]
    ELSE [file |-> WriteFile(f, page_num * PAGE_SIZE, pg.pages[page_num]),
          fatal |-> "none"]

\* get_unused_page_num counting the pages of the file, not the watermark
get_unused_page_num_FromFile(pg) == pg.file_length \div PAGE_SIZE

get_unused_page_num(pg) == pg.num_pages

(***************************************************************************)
(* cursor.c: search                                                        *)
(***************************************************************************)
RECURSIVE BinarySearchNoMatch(_, _, _, _)
\* BinarySearch without the test for an exact match
BinarySearchNoMatch(node, key, min_index, one_past_max_index) ==
    IF one_past_max_index = min_index THEN min_index
    ELSE LET index == (min_index + one_past_max_index) \div 2
             key_at_index == ReadU32(node, leaf_node_key(index))
         IN  IF key < key_at_index
             THEN BinarySearchNoMatch(node, key, min_index, index)
             ELSE BinarySearchNoMatch(node, key, index + 1, one_past_max_index)

RECURSIVE BinarySearch(_, _, _, _)
\* the loop of leaf_node_find: the cell_num it leaves in the cursor
BinarySearch(node, key, min_index, one_past_max_index) ==
    IF one_past_max_index = min_index THEN min_index
    ELSE LET index == (min_index + one_past_max_index) \div 2
             key_at_index == ReadU32(node, leaf_node_key(index))
         IN  IF key = key_at_index THEN index
             ELSE IF key < key_at_index
             THEN BinarySearch(node, key, min_index, index)
             ELSE BinarySearch(node, key, index + 1, one_past_max_index)

\* leaf_node_find(table, page_num, key): the pager after get_page, the fatal
\* error, and the cursor returned (page_num, cell_num)
leaf_node_find(pg, f, page_num, key, fill, read_ok) ==
    LET g == get_page(pg, f, page_num, fill, read_ok)
    IN  IF g.fatal # "none" THEN [pager |-> g.pager, fatal |-> g.fatal, cursor |-> [page_num |-> 0, cell_num |-> 0]]
        ELSE LET node == g.pager.pages[page_num]
                 num_cells == leaf_node_num_cells(node)
             IN  [pager  |-> g.pager,
                  fatal  |-> "none",
                  cursor |-> [page_num |-> page_num,
                              cell_num |-> BinarySearch(node, key, 0, num_cells)]]

\* table_find without the test of the node type: it always goes to
\* leaf_node_find
table_find_NoTypeTest(pg, f, root_page_num, key, fill, read_ok) ==
    LET g == get_page(pg, f, root_page_num, fill, read_ok)
    IN  IF g.fatal # "none" THEN [pager |-> g.pager, fatal |-> g.fatal, cursor |-> [page_num |-> 0, cell_num |-> 0]]
        ELSE leaf_node_find(g.pager, f, root_page_num, key, fill, read_ok)

\* table_find(table, key)
table_find(pg, f, root_page_num, key, fill, read_ok) ==
    LET g == get_page(pg, f, root_page_num, fill, read_ok)
    IN  IF g.fatal # "none" THEN [pager |-> g.pager, fatal |-> g.fatal, cursor |-> [page_num |-> 0, cell_num |-> 0]]
        ELSE IF get_node_type(g.pager.pages[root_page_num]) = NODE_LEAF
        THEN leaf_node_find(g.pager, f, root_page_num, key, fill, read_ok)
        ELSE [pager |-> g.pager, fatal |-> "unimplemented_internal_search",
              cursor |-> [page_num |-> 0, cell_num |-> 0]]

(***************************************************************************)
(* btree.c: insert, split, new root                                        *)
(***************************************************************************)
\* create_new_root that leaves the root flag of the left child as copied
create_new_root_KeepsFlag(pg, f, root_page_num, right_child_page_num, fill) ==
    LET g1 == get_page(pg, f, root_page_num, fill, TRUE)
        g2 == get_page(g1.pager, f, right_child_page_num, fill, TRUE)
        left_child_page_num == get_unused_page_num(g2.pager)
        g3 == get_page(g2.pager, f, left_child_page_num, fill, TRUE)
    IN  IF g1.fatal # "none" THEN g1
        ELSE IF g2.fatal # "none" THEN g2
        ELSE IF g3.fatal # "none" THEN g3
        ELSE LET root == g3.pager.pages[root_page_num]
                 left_child == root
                 r1 == set_node_root(initialize_internal_node(root), TRUE)
                 r2 == WriteU32(r1, INTERNAL_NODE_NUM_KEYS_OFFSET, 1)
                 r3 == WriteU32(r2, internal_node_child(r2, 0), left_child_page_num)
                 left_child_max_key == get_node_max_key(left_child)
                 r4 == WriteU32(r3, internal_node_key(0), left_child_max_key)
                 r5 == WriteU32(r4, internal_node_right_child, right_child_page_num)
             IN  [pager |-> [g3.pager EXCEPT !.pages[left_child_page_num] = left_child,
                                             !.pages[root_page_num] = r5],
                  fatal |-> "none"]

\* create_new_root(table, right_child_page_num)
create_new_root(pg, f, root_page_num, right_child_page_num, fill) ==
    LET g1 == get_page(pg, f, root_page_num, fill, TRUE)
        g2 == get_page(g1.pager, f, right_child_page_num, fill, TRUE)
        left_child_page_num == get_unused_page_num(g2.pager)
        g3 == get_page(g2.pager, f, left_child_page_num, fill, TRUE)
    IN  IF g1.fatal # "none" THEN g1
        ELSE IF g2.fatal # "none" THEN g2
        ELSE IF g3.fatal # "none" THEN g3
        ELSE LET root == g3.pager.pages[root_page_num]
                 left_child == set_node_root(root, FALSE)
                 r1 == set_node_root(initialize_internal_node(root), TRUE)
                 r2 == WriteU32(r1, INTERNAL_NODE_NUM_KEYS_OFFSET, 1)
                 r3 == WriteU32(r2, internal_node_child(r2, 0), left_child_page_num)
                 left_child_max_key == get_node_max_key(left_child)
                 r4 == WriteU32(r3, internal_node_key(0), left_child_max_key)
                 r5 == WriteU32(r4, internal_node_right_child, right_child_page_num)
             IN  [pager |-> [g3.pager EXCEPT !.pages[left_child_page_num] = left_child,
                                             !.pages[root_page_num] = r5],
                  fatal |-> "none"]

RECURSIVE SplitLoop(_, _, _, _, _)
\* the for loop of leaf_node_split_and_insert from index i down to 0: the old
\* and the new node after it
SplitLoop(old_node, new_node, i, cell_num, value) ==
    IF i < 0 THEN [old |-> old_node, new |-> new_node]
    ELSE LET to_new == i >= LEAF_NODE_LEFT_SPLIT_COUNT
             destination_node == IF to_new THEN new_node ELSE old_node
             index_within_node == i % LEAF_NODE_LEFT_SPLIT_COUNT
             destination == leaf_node_cell(index_within_node)
             written ==
                 IF i = cell_num
                 THEN serialize_row(value, destination_node, destination)
                 ELSE IF i > cell_num
                 THEN WriteBytes(destination_node, destination,
                          ReadBytes(old_node, leaf_node_cell(i - 1), LEAF_NODE_CELL_SIZE))
                 ELSE WriteBytes(destination_node, destination,
                          ReadBytes(old_node, leaf_node_cell(i), LEAF_NODE_CELL_SIZE))
         IN  SplitLoop(IF to_new THEN old_node ELSE written,
                       IF to_new THEN written ELSE new_node,
                       i - 1, cell_num, value)

\* SplitNodes that stores the right count in the old node and the left count
\* in the new one
SplitNodesSwapsCounts(old_node, new_node, cell_num, value) ==
    LET l == SplitLoop(old_node, initialize_leaf_node(new_node),
                       LEAF_NODE_MAX_CELLS, cell_num, value)
    IN  [old |-> WriteU32(l.old, LEAF_NODE_NUM_CELLS_OFFSET, LEAF_NODE_RIGHT_SPLIT_COUNT),
         new |-> WriteU32(l.new, LEAF_NODE_NUM_CELLS_OFFSET, LEAF_NODE_LEFT_SPLIT_COUNT)]

\* the old and the new node when the loop and the two cell-count stores of
\* leaf_node_split_and_insert are done
SplitNodes(old_node, new_node, cell_num, value) ==
    LET l == SplitLoop(old_node, initialize_leaf_node(new_node),
                       LEAF_NODE_MAX_CELLS, cell_num, value)
    IN  [old |-> WriteU32(l.old, LEAF_NODE_NUM_CELLS_OFFSET, LEAF_NODE_LEFT_SPLIT_COUNT),
         new |-> WriteU32(l.new, LEAF_NODE_NUM_CELLS_OFFSET, LEAF_NODE_RIGHT_SPLIT_COUNT)]

\* leaf_node_split_and_insert(cursor, key, value); fill1 and fill2 are what
\* malloc hands out for the new node and for the left child
leaf_node_split_and_insert(pg, f, root_page_num, cur, key, value, fill1, fill2) ==
    LET g1 == get_page(pg, f, cur.page_num, fill1, TRUE)
        new_page_num == get_unused_page_num(g1.pager)
        g2 == get_page(g1.pager, f, new_page_num, fill1, TRUE)
    IN  IF g1.fatal # "none" THEN g1
        ELSE IF g2.fatal # "none" THEN g2
        ELSE LET sp == SplitNodes(g2.pager.pages[cur.page_num],
                                  g2.pager.pages[new_page_num], cur.cell_num, value)
                 p2 == [g2.pager EXCEPT !.pages[cur.page_num] = sp.old,
                                        !.pages[new_page_num] = sp.new]
             IN  IF is_node_root(sp.old)
                 THEN create_new_root(p2, f, root_page_num, new_page_num, fill2)
                 ELSE [pager |-> p2, fatal |-> "unimplemented_parent_update"]

RECURSIVE ShiftCellsForward(_, _, _)
\* ShiftCells that copies first-to-last: cell cell_num is copied to cell
\* cell_num + 1 first, so every cell above ends up a copy of it
ShiftCellsForward(node, i, cell_num) ==
    IF i > cell_num
    THEN LET n1 == ShiftCellsForward(node, i - 1, cell_num)
         IN  WriteBytes(n1, leaf_node_cell(i),
                 ReadBytes(n1, leaf_node_cell(i - 1), LEAF_NODE_CELL_SIZE))
    ELSE node

RECURSIVE ShiftCells(_, _, _)
\* the loop of leaf_node_insert that makes room: cell i-1 is copied to cell i,
\* for i from num_cells down to cell_num + 1
ShiftCells(node, i, cell_num) ==
    IF i > cell_num
    THEN ShiftCells(WriteBytes(node, leaf_node_cell(i),
                        ReadBytes(node, leaf_node_cell(i - 1), LEAF_NODE_CELL_SIZE)),
                    i - 1, cell_num)
    ELSE node

\* LeafInsertInPlace without the loop that makes room
LeafInsertNoShift(node, cell_num, key, value) ==
    LET num_cells == leaf_node_num_cells(node)
        n2 == WriteU32(node, LEAF_NODE_NUM_CELLS_OFFSET, num_cells + 1)
        n3 == WriteU32(n2, leaf_node_key(cell_num), key)
    IN  serialize_row(value, n3, leaf_node_value(cell_num))

\* leaf_node_insert below the split test: the node after the shift, the
\* cell-count increment and the stores of the key and the record
LeafInsertInPlace(node, cell_num, key, value) ==
    LET num_cells == leaf_node_num_cells(node)
        n1 == IF cell_num < num_cells
              THEN ShiftCells(node, num_cells, cell_num)
              ELSE node
        n2 == WriteU32(n1, LEAF_NODE_NUM_CELLS_OFFSET, num_cells + 1)
        n3 == WriteU32(n2, leaf_node_key(cell_num), key)
    IN  serialize_row(value, n3, leaf_node_value(cell_num))

\* leaf_node_insert(cursor, key, value)
leaf_node_insert(pg, f, root_page_num, cur, key, value, fill1, fill2) ==
    LET g == get_page(pg, f, cur.page_num, fill1, TRUE)
    IN  IF g.fatal # "none" THEN g
        ELSE LET node == g.pager.pages[cur.page_num]
                 num_cells == leaf_node_num_cells(node)
             IN  IF num_cells >= LEAF_NODE_MAX_CELLS
                 THEN leaf_node_split_and_insert(g.pager, f, root_page_num, cur, key,
                                                 value, fill1, fill2)
                 ELSE [pager |-> [g.pager EXCEPT !.pages[cur.page_num] =
                                     LeafInsertInPlace(node, cur.cell_num, key, value)],
                       fatal |-> "none"]

(***************************************************************************)
(* cursor.c: traversal                                                     *)
(***************************************************************************)
\* table_start(table): the pager after get_page, the fatal error, the cursor
table_start(pg, f, root_page_num, fill, read_ok) ==
    LET g == get_page(pg, f, root_page_num, fill, read_ok)
    IN  IF g.fatal # "none" THEN [pager |-> g.pager, fatal |-> g.fatal, cursor |-> NoCursor]
        ELSE LET num_cells == leaf_node_num_cells(g.pager.pages[root_page_num])
             IN  [pager  |-> g.pager,
                  fatal  |-> "none",
                  cursor |-> [active       |-> TRUE,
                              page_num     |-> root_page_num,
                              cell_num     |-> 0,
                              end_of_table |-> (num_cells = 0)]]

\* cursor_advance that sets end_of_table to whether the cursor has just
\* reached the cell count
cursor_advance_ExactEnd(cur, node) ==
    [cur EXCEPT !.cell_num = cur.cell_num + 1,
                !.end_of_table = (cur.cell_num + 1 = leaf_node_num_cells(node))]

\* cursor_advance(cursor) on the cached page node
cursor_advance(cur, node) ==
    [cur EXCEPT !.cell_num = cur.cell_num + 1,
                !.end_of_table = IF cur.cell_num + 1 >= leaf_node_num_cells(node)
                                 THEN TRUE
                                 ELSE cur.end_of_table]

\* the offset cursor_value(cursor) returns into the cursor's page
cursor_value(cur) == leaf_node_value(cur.cell_num)

(***************************************************************************)
(* Sets and sequences of numbers.                                           *)
(***************************************************************************)
SeqRange(q) == {q[i] : i \in 1..Len(q)}

MinOf(S) == CHOOSE m \in S : \A x \in S : m <= x

MaxOf(S) == CHOOSE m \in S : \A x \in S : x <= m

RECURSIVE SortedSeq(_)
\* the elements of a set of numbers in ascending order
SortedSeq(S) ==
    IF S = {} THEN <<>> ELSE <<MinOf(S)>> \o SortedSeq(S \ {MinOf(S)})

\* the bytes a file has for page m
FilePage(f, m) == ReadBytes(f, m * PAGE_SIZE, PAGE_SIZE)

\* the numbers of the pages a file has
FilePageNums(f) == 0..((Len(f) \div PAGE_SIZE) - 1)

(***************************************************************************)
(* The inputs of the model.                                                *)
(***************************************************************************)
Keys == 1..MaxKey

ChildKeys == (MaxKey + 1)..(MaxKey + MaxChildKeys)

\* the rows presented with key k: the row's id is the key, or is not
RowsFor(k) ==
    {[id |-> k, username |-> <<98, 99>>, email |-> <<101, 102>>],
     [id |-> 0, username |-> <<97, 0>>, email |-> <<100, 0>>]}

\* a root leaf as db_open makes it in a zeroed page
EmptyRootLeaf == set_node_root(initialize_leaf_node(Fill(PAGE_SIZE, 0)), TRUE)

\* the row stored under key 3 in the database files that are not empty
StoredRow == [id |-> 3, username |-> <<97, 0>>, email |-> <<100, 0>>]

\* a database file of one page: a root leaf holding key 3
OnePageFile == LeafInsertInPlace(EmptyRootLeaf, 0, 3, StoredRow)

\* the database files the program is started on, with the rows they hold:
\* a new file, a file of one page, a file of two pages, and a file with a
\* byte too many
InitialDbs ==
    {[file |-> <<>>, rows |-> {}],
     [file |-> OnePageFile, rows |-> {[key |-> 3, row |-> StoredRow]}],
     [file |-> OnePageFile \o initialize_leaf_node(Fill(PAGE_SIZE, 0)),
      rows |-> {[key |-> 3, row |-> StoredRow]}],
     [file |-> OnePageFile \o <<0>>, rows |-> {[key |-> 3, row |-> StoredRow]}]}

InsertedKeys == {p.key : p \in inserted}

\* what malloc can hand out for page n: it matters only if n is not cached
FillsFor(n) == IF n \in PageNums /\ pager.pages[n] = NULL THEN MallocFill ELSE {0}

\* whether read() can fail for page n: it is called only if n is not cached
ReadsFor(n) == IF n \in PageNums /\ pager.pages[n] = NULL THEN BOOLEAN ELSE {TRUE}

\* no result of get_unused_page_num is pending
NoUnused == [num |-> -1, own |-> FALSE, above |-> FALSE, twice |-> FALSE]

Op(name, page_num, key, ret) ==
    [name |-> name, page_num |-> page_num, key |-> key, ret |-> ret]

(***************************************************************************)
(* The database: the operations of a session on one table.                 *)
(***************************************************************************)
Init ==
    /\ \E db \in InitialDbs : file = db.file /\ inserted = db.rows
    /\ pager = NoPager
    /\ table = NoTable
    /\ cursor = NoCursor
    /\ scanned = <<>>
    /\ fatal = "none"
    /\ last_op = Op("none", 0, 0, 0)
    /\ h_unused = NoUnused
    /\ p_calls = 0
    /\ c_pc = "init"
    /\ c_src = NoRow
    /\ c_buf = <<>>
    /\ c_dst = NoRow

\* db_open: pager_open, and on a new file page 0 becomes an empty root leaf
DbOpen(open_ok, fill) ==
    /\ fatal = "none"
    /\ ~pager.open
    /\ LET o == pager_open(file, open_ok)
           g == get_page(o.pager, file, 0, fill, TRUE)
       IN  IF o.fatal # "none"
           THEN /\ fatal' = o.fatal
                /\ UNCHANGED <<pager, table>>
           ELSE IF o.pager.num_pages = 0
           THEN /\ fatal' = g.fatal
                /\ pager' = [g.pager EXCEPT !.pages[0] =
                                set_node_root(initialize_leaf_node(g.pager.pages[0]), TRUE)]
                /\ table' = [open |-> TRUE, root_page_num |-> 0]
           ELSE /\ fatal' = "none"
                /\ pager' = o.pager
                /\ table' = [open |-> TRUE, root_page_num |-> 0]
    /\ UNCHANGED <<file, cursor, scanned, inserted, other_vars>>

\* the insert path: table_find, then leaf_node_insert at the cursor it returns
Insert(key, value, fill0, read_ok, fill1, fill2) ==
    /\ fatal = "none"
    /\ table.open
    /\ ~cursor.active
    /\ key \notin InsertedKeys
    /\ LET t == table_find(pager, file, table.root_page_num, key, fill0, read_ok)
           l == leaf_node_insert(t.pager, file, table.root_page_num, t.cursor,
                                 key, value, fill1, fill2)
       IN  IF t.fatal # "none"
           THEN /\ pager' = t.pager
                /\ fatal' = t.fatal
                /\ UNCHANGED inserted
           ELSE /\ pager' = l.pager
                /\ fatal' = l.fatal
                /\ inserted' = IF l.fatal = "none"
                               THEN inserted \cup {[key |-> key, row |-> value]}
                               ELSE inserted
    /\ UNCHANGED <<file, table, cursor, scanned, other_vars>>

\* an insert into a leaf below the root: leaf_node_find on that page, then
\* leaf_node_insert at the cursor it returns
LeafInsert(page_num, key, value, fill1) ==
    /\ fatal = "none"
    /\ table.open
    /\ ~cursor.active
    /\ key \notin InsertedKeys
    /\ page_num # table.root_page_num
    /\ pager.pages[page_num] # NULL
    /\ get_node_type(pager.pages[table.root_page_num]) = NODE_INTERNAL
    /\ get_node_type(pager.pages[page_num]) = NODE_LEAF
    /\ LET t == leaf_node_find(pager, file, page_num, key, 0, TRUE)
           l == leaf_node_insert(t.pager, file, table.root_page_num, t.cursor,
                                 key, value, fill1, 0)
       IN  /\ pager' = l.pager
           /\ fatal' = l.fatal
           /\ inserted' = IF l.fatal = "none"
                          THEN inserted \cup {[key |-> key, row |-> value]}
                          ELSE inserted
    /\ UNCHANGED <<file, table, cursor, scanned, other_vars>>

\* a scan begins: table_start
TableStart(fill, read_ok) ==
    /\ fatal = "none"
    /\ table.open
    /\ ~cursor.active
    /\ LET t == table_start(pager, file, table.root_page_num, fill, read_ok)
       IN  /\ pager' = t.pager
           /\ fatal' = t.fatal
           /\ cursor' = t.cursor
    /\ scanned' = <<>>
    /\ UNCHANGED <<file, table, inserted, other_vars>>

\* a step of the scan: the key of the cell under the cursor is read unless
\* the cursor is at the end, then cursor_advance
CursorAdvance ==
    /\ fatal = "none"
    /\ cursor.active
    /\ LET node == pager.pages[cursor.page_num]
       IN  /\ cursor.cell_num < leaf_node_num_cells(node) + MaxOverrun
           /\ scanned' = IF cursor.end_of_table THEN scanned
                         ELSE Append(scanned, ReadU32(node, leaf_node_key(cursor.cell_num)))
           /\ cursor' = cursor_advance(cursor, node)
    /\ UNCHANGED <<file, pager, table, inserted, fatal, other_vars>>

\* the scan ends: the cursor is freed
EndScan ==
    /\ fatal = "none"
    /\ cursor.active
    /\ cursor' = NoCursor
    /\ scanned' = <<>>
    /\ UNCHANGED <<file, pager, table, inserted, fatal, other_vars>>

\* what malloc can hand out for page n in an insert into the leaf on page
\* leaf_page: malloc is called only if the leaf is split, and a cached leaf
\* with room is not
SplitFillsFor(n, leaf_page) ==
    IF /\ leaf_page \in PageNums
       /\ pager.pages[leaf_page] # NULL
       /\ get_node_type(pager.pages[leaf_page]) = NODE_LEAF
       /\ leaf_node_num_cells(pager.pages[leaf_page]) < LEAF_NODE_MAX_CELLS
    THEN {0}
    ELSE FillsFor(n)

Next ==
    \/ \E open_ok \in BOOLEAN, fill \in MallocFill : DbOpen(open_ok, fill)
    \/ \E key \in Keys : \E value \in RowsFor(key) :
         \E fill0 \in FillsFor(table.root_page_num), read_ok \in ReadsFor(table.root_page_num),
            fill1 \in SplitFillsFor(pager.num_pages, table.root_page_num),
            fill2 \in SplitFillsFor(pager.num_pages + 1, table.root_page_num) :
           Insert(key, value, fill0, read_ok, fill1, fill2)
    \/ \E page_num \in PageNums, key \in ChildKeys : \E value \in RowsFor(key) :
         \E fill1 \in SplitFillsFor(pager.num_pages, page_num) :
           LeafInsert(page_num, key, value, fill1)
    \/ \E fill \in FillsFor(table.root_page_num), read_ok \in ReadsFor(table.root_page_num) :
         TableStart(fill, read_ok)
    \/ CursorAdvance
    \/ EndScan

Spec == Init /\ [][Next]_vars

(***************************************************************************)
(* The pager on its own: a client that calls the functions of pager.h      *)
(* with any page number, and writes to the pages it is given through       *)
(* initialize_leaf_node.                                                   *)
(***************************************************************************)
\* h_unused after a get_page(page_num): whether the pending number, or a
\* number above it, has been asked for since get_unused_page_num returned it
NoteGetPage(h, page_num) ==
    IF h.num < 0 THEN h
    ELSE [h EXCEPT !.own = h.own \/ page_num = h.num,
                   !.above = h.above \/ page_num > h.num]

PagerOpen(open_ok) ==
    /\ fatal = "none"
    /\ p_calls < MaxCalls
    /\ p_calls' = p_calls + 1
    /\ ~pager.open
    /\ LET o == pager_open(file, open_ok)
       IN  /\ pager' = o.pager
           /\ fatal' = o.fatal
    /\ last_op' = Op("pager_open", 0, 0, 0)
    /\ UNCHANGED <<file, table, cursor, scanned, inserted, h_unused,
                   c_pc, c_src, c_buf, c_dst>>

GetPage(page_num, fill, read_ok) ==
    /\ fatal = "none"
    /\ p_calls < MaxCalls
    /\ p_calls' = p_calls + 1
    /\ pager.open
    /\ LET g == get_page(pager, file, page_num, fill, read_ok)
       IN  /\ pager' = g.pager
           /\ fatal' = g.fatal
    /\ last_op' = Op("get_page", page_num, 0, 0)
    /\ h_unused' = NoteGetPage(h_unused, page_num)
    /\ UNCHANGED <<file, table, cursor, scanned, inserted,
                   c_pc, c_src, c_buf, c_dst>>

GetUnusedPageNum ==
    /\ fatal = "none"
    /\ p_calls < MaxCalls
    /\ p_calls' = p_calls + 1
    /\ pager.open
    /\ last_op' = Op("get_unused_page_num", 0, 0, get_unused_page_num(pager))
    /\ h_unused' = [num   |-> get_unused_page_num(pager),
                    own   |-> FALSE,
                    above |-> FALSE,
                    twice |-> h_unused.num >= 0 /\ ~h_unused.own /\ ~h_unused.above]
    /\ UNCHANGED <<file, pager, table, cursor, scanned, inserted, fatal,
                   c_pc, c_src, c_buf, c_dst>>

PagerFlush(page_num, seek_ok, write_ok) ==
    /\ fatal = "none"
    /\ p_calls < MaxCalls
    /\ p_calls' = p_calls + 1
    /\ pager.open
    /\ LET w == pager_flush(pager, file, page_num, seek_ok, write_ok)
       IN  /\ file' = w.file
           /\ fatal' = w.fatal
    /\ last_op' = Op("pager_flush", page_num, 0, 0)
    /\ UNCHANGED <<pager, table, cursor, scanned, inserted, h_unused,
                   c_pc, c_src, c_buf, c_dst>>

\* the client initializes a page it got from get_page as a leaf
InitializeLeafNode(page_num) ==
    /\ fatal = "none"
    /\ p_calls < MaxCalls
    /\ p_calls' = p_calls + 1
    /\ pager.open
    /\ pager.pages[page_num] # NULL
    /\ pager' = [pager EXCEPT !.pages[page_num] = initialize_leaf_node(pager.pages[page_num])]
    /\ last_op' = Op("initialize_leaf_node", page_num, 0, 0)
    /\ UNCHANGED <<file, table, cursor, scanned, inserted, fatal, h_unused,
                   c_pc, c_src, c_buf, c_dst>>

\* the page numbers the client asks for
AskedPages == 0..(TABLE_MAX_PAGES - 1 + MaxPageOver)

NextPager ==
    \/ \E open_ok \in BOOLEAN : PagerOpen(open_ok)
    \/ \E page_num \in AskedPages :
         \E fill \in FillsFor(page_num), read_ok \in ReadsFor(page_num) :
           GetPage(page_num, fill, read_ok)
    \/ GetUnusedPageNum
    \/ \E page_num \in PageNums, seek_ok \in BOOLEAN, write_ok \in BOOLEAN :
         PagerFlush(page_num, seek_ok, write_ok)
    \/ \E page_num \in PageNums : InitializeLeafNode(page_num)

SpecPager == Init /\ [][NextPager]_vars

(***************************************************************************)
(* The codec on its own: a row is serialized into a buffer and read back.  *)
(***************************************************************************)
\* the bytes of the text fields: NUL and two letters
TextBytes == {0, 97, 98}

\* ids with a byte set in each of the four positions
CodecIds == {0, 1, 258, 196615, 83886080}

CodecRows ==
    [id : CodecIds,
     username : [1..USERNAME_SIZE -> TextBytes],
     email : [1..EMAIL_SIZE -> TextBytes]]

InitCodec ==
    /\ file = <<>>
    /\ inserted = {}
    /\ pager = NoPager
    /\ table = NoTable
    /\ cursor = NoCursor
    /\ scanned = <<>>
    /\ fatal = "none"
    /\ last_op = Op("none", 0, 0, 0)
    /\ h_unused = NoUnused
    /\ p_calls = 0
    /\ c_pc = "init"
    /\ c_src \in CodecRows
    /\ c_buf \in {Fill(ROW_SIZE, b) : b \in MallocFill}
    /\ c_dst = NoRow

SerializeRow ==
    /\ c_pc = "init"
    /\ c_buf' = serialize_row(c_src, c_buf, 0)
    /\ c_pc' = "serialized"
    /\ UNCHANGED <<file, pager, table, cursor, scanned, inserted, fatal, last_op,
                   h_unused, p_calls, c_src, c_dst>>

DeserializeRow ==
    /\ c_pc = "serialized"
    /\ c_dst' = deserialize_row(c_buf, 0)
    /\ c_pc' = "deserialized"
    /\ UNCHANGED <<file, pager, table, cursor, scanned, inserted, fatal, last_op,
                   h_unused, p_calls, c_src, c_buf>>

NextCodec == SerializeRow \/ DeserializeRow

SpecCodec == InitCodec /\ [][NextCodec]_vars

(***************************************************************************)
(* The search on its own: leaf_node_find is called on a leaf whose keys    *)
(* are strictly ascending.                                                 *)
(***************************************************************************)
RECURSIVE LeafOf(_, _)
\* a leaf page holding the keys of the sequence ks, in that order, each
\* with a row of that id
LeafOf(ks, node) ==
    IF ks = <<>> THEN node
    ELSE LeafOf(Tail(ks),
                LeafInsertInPlace(node, leaf_node_num_cells(node), Head(ks),
                                  [id |-> Head(ks), username |-> <<97, 0>>,
                                   email |-> <<100, 0>>]))

\* the strictly ascending key sequences a leaf can hold
AscendingKeys ==
    {ks \in UNION {[1..n -> 1..MaxFindKey] : n \in 0..LEAF_NODE_MAX_CELLS} :
        \A i \in 1..(Len(ks) - 1) : ks[i] < ks[i + 1]}

\* the keys searched for: below, among, between and above the stored keys
ProbeKeys == 0..(MaxFindKey + 1)

InitFind ==
    /\ \E ks \in AscendingKeys : file = LeafOf(ks, EmptyRootLeaf)
    /\ inserted = {}
    /\ pager = pager_open(file, TRUE).pager
    /\ table = [open |-> TRUE, root_page_num |-> 0]
    /\ cursor = NoCursor
    /\ scanned = <<>>
    /\ fatal = "none"
    /\ last_op = Op("none", 0, 0, 0)
    /\ h_unused = NoUnused
    /\ p_calls = 0
    /\ c_pc = "init"
    /\ c_src = NoRow
    /\ c_buf = <<>>
    /\ c_dst = NoRow

\* leaf_node_find(table, page_num, key); the cursor it returns comes from
\* malloc and its end_of_table is not set
LeafNodeFind(page_num, key, fill, read_ok, eot) ==
    /\ fatal = "none"
    /\ LET t == leaf_node_find(pager, file, page_num, key, fill, read_ok)
       IN  /\ pager' = t.pager
           /\ fatal' = t.fatal
           /\ cursor' = IF t.fatal = "none"
                        THEN [active |-> TRUE, page_num |-> t.cursor.page_num,
                              cell_num |-> t.cursor.cell_num, end_of_table |-> eot]
                        ELSE cursor
    /\ last_op' = Op("leaf_node_find", page_num, key, 0)
    /\ UNCHANGED <<file, table, scanned, inserted, h_unused, p_calls,
                   c_pc, c_src, c_buf, c_dst>>

NextFind ==
    \E key \in ProbeKeys, eot \in BOOLEAN :
      \E fill \in FillsFor(table.root_page_num), read_ok \in ReadsFor(table.root_page_num) :
        LeafNodeFind(table.root_page_num, key, fill, read_ok, eot)

SpecFind == InitFind /\ [][NextFind]_vars

(***************************************************************************)
(* The lookup on its own: table_find is called on tables whose root is a   *)
(* leaf and on a table whose root has been split, with the pages cached    *)
(* or not.                                                                 *)
(***************************************************************************)
\* the row presented with key k whose id is the key
KeyRow(k) == [id |-> k, username |-> <<98, 99>>, email |-> <<101, 102>>]

\* the pager of a session that has filled a root leaf with the keys 1 ..
\* LEAF_NODE_MAX_CELLS + 1 but k and then inserted k: the root is split
SplitPagerAt(k) ==
    LET f == LeafOf(SortedSeq((1..(LEAF_NODE_MAX_CELLS + 1)) \ {k}), EmptyRootLeaf)
        t == table_find(pager_open(f, TRUE).pager, f, 0, k, 0, TRUE)
    IN  leaf_node_insert(t.pager, f, 0, t.cursor, k, KeyRow(k), 0, 0).pager

\* the file that session leaves when each of its pages has been flushed
SplitFileAt(k) ==
    SplitPagerAt(k).pages[0] \o SplitPagerAt(k).pages[1] \o SplitPagerAt(k).pages[2]

\* the file of the session that inserted its keys in ascending order
SplitFile == SplitFileAt(LEAF_NODE_MAX_CELLS + 1)

\* the database files the lookups run on
TableFindDbs ==
    {LeafOf(ks, EmptyRootLeaf) : ks \in {<<>>, <<3>>, <<2, 4>>, <<1, 3, 5>>, <<1, 2, 4, 5>>}}
      \cup {SplitFile}

InitTableFind ==
    /\ file \in TableFindDbs
    /\ inserted = {}
    /\ pager = pager_open(file, TRUE).pager
    /\ table = [open |-> TRUE, root_page_num |-> 0]
    /\ cursor = NoCursor
    /\ scanned = <<>>
    /\ fatal = "none"
    /\ last_op = Op("none", 0, 0, 0)
    /\ h_unused = NoUnused
    /\ p_calls = 0
    /\ c_pc = "init"
    /\ c_src = NoRow
    /\ c_buf = <<>>
    /\ c_dst = NoRow

\* table_find(table, key); the cursor leaf_node_find returns comes from
\* malloc and its end_of_table is not set
TableFind(key, fill, read_ok, eot) ==
    /\ fatal = "none"
    /\ table.open
    /\ LET t == table_find(pager, file, table.root_page_num, key, fill, read_ok)
       IN  /\ pager' = t.pager
           /\ fatal' = t.fatal
           /\ cursor' = IF t.fatal = "none"
                        THEN [active |-> TRUE, page_num |-> t.cursor.page_num,
                              cell_num |-> t.cursor.cell_num, end_of_table |-> eot]
                        ELSE cursor
    /\ last_op' = Op("table_find", table.root_page_num, key, 0)
    /\ UNCHANGED <<file, table, scanned, inserted, h_unused, p_calls,
                   c_pc, c_src, c_buf, c_dst>>

NextTableFind ==
    \/ \E key \in Keys, eot \in BOOLEAN :
         \E fill \in FillsFor(table.root_page_num), read_ok \in ReadsFor(table.root_page_num) :
           TableFind(key, fill, read_ok, eot)
    \/ \E page_num \in PageNums :
         \E fill \in FillsFor(page_num), read_ok \in ReadsFor(page_num) :
           GetPage(page_num, fill, read_ok)

SpecTableFind == InitTableFind /\ [][NextTableFind]_vars

(***************************************************************************)
(* The cursor on a tree of several leaves: a root that has been split, a   *)
(* cursor placed in one of the two leaves by leaf_node_find, and           *)
(* cursor_advance from there.                                              *)
(***************************************************************************)
\* the files of the sessions that split the root, one for each position of
\* the key inserted last
SplitDbs == {SplitFileAt(k) : k \in 1..(LEAF_NODE_MAX_CELLS + 1)}

\* the numbers of the pages of a file that are leaves
DiskLeafPages(f) == {n \in FilePageNums(f) : get_node_type(FilePage(f, n)) = NODE_LEAF}

InitSeek ==
    /\ file \in SplitDbs
    /\ inserted = {}
    /\ pager = pager_open(file, TRUE).pager
    /\ table = [open |-> TRUE, root_page_num |-> 0]
    /\ cursor = NoCursor
    /\ scanned = <<>>
    /\ fatal = "none"
    /\ last_op = Op("none", 0, 0, 0)
    /\ h_unused = NoUnused
    /\ p_calls = 0
    /\ c_pc = "init"
    /\ c_src = NoRow
    /\ c_buf = <<>>
    /\ c_dst = NoRow

\* cursor_advance(cursor): its get_page finds the page the cursor was made
\* on in the cache
AdvanceCursor ==
    /\ fatal = "none"
    /\ cursor.active
    /\ pager.pages[cursor.page_num] # NULL
    /\ LET node == pager.pages[cursor.page_num]
       IN  /\ cursor.cell_num < leaf_node_num_cells(node) + MaxOverrun
           /\ cursor' = cursor_advance(cursor, node)
    /\ last_op' = Op("cursor_advance", cursor.page_num, 0, cursor.cell_num)
    /\ UNCHANGED <<file, pager, table, scanned, inserted, fatal, h_unused, p_calls,
                   c_pc, c_src, c_buf, c_dst>>

NextSeek ==
    \/ \E page_num \in DiskLeafPages(file), key \in ProbeKeys, eot \in BOOLEAN :
         \E fill \in FillsFor(page_num), read_ok \in ReadsFor(page_num) :
           LeafNodeFind(page_num, key, fill, read_ok, eot)
    \/ AdvanceCursor

SpecSeek == InitSeek /\ [][NextSeek]_vars

(***************************************************************************)
(* One insert on its own: leaf_node_insert is called once, at any cell of  *)
(* a leaf the cursor can stand on, on root leaves of 0 ..                  *)
(* LEAF_NODE_MAX_CELLS cells and on the leaves below a split root.         *)
(***************************************************************************)
\* a file with a split root after one more session, which inserted key 0
\* into the left leaf, at cell 0, and flushed the page
FillLeftChild(f) ==
    LET root == FilePage(f, 0)
        left_page_num == ReadU32(root, internal_node_child(root, 0))
    IN  WriteFile(f, left_page_num * PAGE_SIZE,
                  LeafInsertInPlace(FilePage(f, left_page_num), 0, 0, KeyRow(0)))

\* the file of the sessions that split the root and then filled the left
\* leaf
FullChildFileAt(k) == FillLeftChild(SplitFileAt(k))

\* the database files the insert runs on
LeafInsertDbs ==
    {LeafOf(ks, EmptyRootLeaf) :
        ks \in {SubSeq(<<2, 4, 6, 8>>, 1, n) : n \in 0..LEAF_NODE_MAX_CELLS}}
      \cup SplitDbs
      \cup {FullChildFileAt(k) : k \in 1..(LEAF_NODE_MAX_CELLS + 1)}

InitLeafInsert ==
    /\ file \in LeafInsertDbs
    /\ inserted = {}
    /\ pager = pager_open(file, TRUE).pager
    /\ table = [open |-> TRUE, root_page_num |-> 0]
    /\ cursor = NoCursor
    /\ scanned = <<>>
    /\ fatal = "none"
    /\ last_op = Op("none", 0, 0, 0)
    /\ h_unused = NoUnused
    /\ p_calls = 0
    /\ c_pc = "init"
    /\ c_src = NoRow
    /\ c_buf = <<>>
    /\ c_dst = NoRow

\* leaf_node_insert(cursor, key, value) at the cursor as it stands, on or
\* right behind a cell of its leaf
LeafNodeInsert(key, value, fill1, fill2) ==
    /\ fatal = "none"
    /\ cursor.active
    /\ inserted = {}
    /\ cursor.cell_num <= leaf_node_num_cells(pager.pages[cursor.page_num])
    /\ LET l == leaf_node_insert(pager, file, table.root_page_num, cursor,
                                 key, value, fill1, fill2)
       IN  /\ pager' = l.pager
           /\ fatal' = l.fatal
    /\ inserted' = {[key |-> key, row |-> value]}
    /\ last_op' = Op("leaf_node_insert", cursor.page_num, key, cursor.cell_num)
    /\ UNCHANGED <<file, table, cursor, scanned, h_unused, p_calls,
                   c_pc, c_src, c_buf, c_dst>>

\* the session places a cursor, moves it, and calls leaf_node_insert once
NextLeafInsert ==
    \/ \E page_num \in DiskLeafPages(file), key \in ProbeKeys, eot \in BOOLEAN :
         \E fill \in FillsFor(page_num), read_ok \in ReadsFor(page_num) :
           inserted = {} /\ LeafNodeFind(page_num, key, fill, read_ok, eot)
    \/ inserted = {} /\ AdvanceCursor
    \/ \E key \in Keys : \E value \in RowsFor(key) :
         \E fill1 \in FillsFor(pager.num_pages), fill2 \in FillsFor(pager.num_pages + 1) :
           LeafNodeInsert(key, value, fill1, fill2)

SpecLeafInsert == InitLeafInsert /\ [][NextLeafInsert]_vars

(***************************************************************************)
(* The scan on its own: table_start on a root leaf of 0 ..                 *)
(* LEAF_NODE_MAX_CELLS cells, then cursor_advance, again and again.        *)
(***************************************************************************)
NextScan ==
    \/ \E fill \in FillsFor(table.root_page_num), read_ok \in ReadsFor(table.root_page_num) :
         TableStart(fill, read_ok)
    \/ CursorAdvance
    \/ EndScan

SpecScan == InitFind /\ [][NextScan]_vars

(***************************************************************************)
(* The insert path on a new database: db_open of an empty file, then       *)
(* inserts by table_find and leaf_node_insert, with more keys on offer     *)
(* than the tree can take.                                                 *)
(***************************************************************************)
\* the keys on offer: one more than the inserts a root leaf and its split take
PathKeys == 1..(LEAF_NODE_MAX_CELLS + 2)

InitInsertPath ==
    /\ file = <<>>
    /\ inserted = {}
    /\ pager = NoPager
    /\ table = NoTable
    /\ cursor = NoCursor
    /\ scanned = <<>>
    /\ fatal = "none"
    /\ last_op = Op("none", 0, 0, 0)
    /\ h_unused = NoUnused
    /\ p_calls = 0
    /\ c_pc = "init"
    /\ c_src = NoRow
    /\ c_buf = <<>>
    /\ c_dst = NoRow

NextInsertPath ==
    \/ \E open_ok \in BOOLEAN, fill \in MallocFill : DbOpen(open_ok, fill)
    \/ \E key \in PathKeys : \E value \in RowsFor(key) :
         \E fill0 \in FillsFor(table.root_page_num), read_ok \in ReadsFor(table.root_page_num),
            fill1 \in FillsFor(pager.num_pages), fill2 \in FillsFor(pager.num_pages + 1) :
           Insert(key, value, fill0, read_ok, fill1, fill2)

SpecInsertPath == InitInsertPath /\ [][NextInsertPath]_vars

\* the root page is in the cache
RootCached == table.open /\ pager.pages[table.root_page_num] # NULL

(***************************************************************************)
(* The cache under the tree: get_page and pager_flush calls before and     *)
(* after one insert, which goes into a root leaf, splits the root, goes    *)
(* into a leaf below the root or fails to split it.                        *)
(***************************************************************************)
\* the database files: a root leaf with room, a full root leaf, and a split
\* root whose left leaf is full
CacheDbs ==
    {LeafOf(<<2, 4>>, EmptyRootLeaf),
     LeafOf([i \in 1..LEAF_NODE_MAX_CELLS |-> 2 * i], EmptyRootLeaf),
     FullChildFileAt(LEAF_NODE_MAX_CELLS + 1)}

InitCache ==
    /\ file \in CacheDbs
    /\ inserted = {}
    /\ pager = pager_open(file, TRUE).pager
    /\ table = [open |-> TRUE, root_page_num |-> 0]
    /\ cursor = NoCursor
    /\ scanned = <<>>
    /\ fatal = "none"
    /\ last_op = Op("none", 0, 0, 0)
    /\ h_unused = NoUnused
    /\ p_calls = 0
    /\ c_pc = "init"
    /\ c_src = NoRow
    /\ c_buf = <<>>
    /\ c_dst = NoRow

NextCache ==
    \/ \E page_num \in AskedPages :
         \E fill \in FillsFor(page_num), read_ok \in ReadsFor(page_num) :
           GetPage(page_num, fill, read_ok)
    \/ \E page_num \in PageNums, seek_ok \in BOOLEAN, write_ok \in BOOLEAN :
         PagerFlush(page_num, seek_ok, write_ok)
    \/ \E key \in Keys : \E value \in RowsFor(key) :
         \E fill0 \in FillsFor(table.root_page_num), read_ok \in ReadsFor(table.root_page_num),
            fill1 \in FillsFor(pager.num_pages), fill2 \in FillsFor(pager.num_pages + 1) :
           inserted = {} /\ Insert(key, value, fill0, read_ok, fill1, fill2)
    \/ \E page_num \in PageNums, key \in ChildKeys : \E value \in RowsFor(key) :
         \E fill1 \in FillsFor(pager.num_pages) :
           inserted = {} /\ RootCached /\ LeafInsert(page_num, key, value, fill1)

SpecCache == InitCache /\ [][NextCache]_vars

(***************************************************************************)
(* What the properties below speak of.                                     *)
(***************************************************************************)
RootNode == pager.pages[table.root_page_num]

\* the keys of the cells 0 .. num_cells-1 of a leaf, in cell order
LeafKeys(node) ==
    [i \in 1..leaf_node_num_cells(node) |-> ReadU32(node, leaf_node_key(i - 1))]

\* a row as its id and the logical content of its text fields
Norm(row) ==
    [id |-> row.id, username |-> Logical(row.username), email |-> Logical(row.email)]

\* the (key, row) pairs of the cells of a leaf, in cell order, each record
\* read through leaf_node_value and decoded
LeafPairs(node) ==
    [i \in 1..leaf_node_num_cells(node) |->
        [key |-> ReadU32(node, leaf_node_key(i - 1)),
         row |-> Norm(deserialize_row(node, leaf_node_value(i - 1)))]]

\* the (key, row) pairs handed to the insert operations, in key order
SortedPairs(pairs) ==
    LET ks == SortedSeq({p.key : p \in pairs})
    IN  [i \in 1..Len(ks) |->
            [key |-> ks[i],
             row |-> Norm((CHOOSE p \in pairs : p.key = ks[i]).row)]]

\* a step that inserts a row into a root leaf holding LEAF_NODE_MAX_CELLS
FullRootInsertStep ==
    /\ RootCached
    /\ get_node_type(RootNode) = NODE_LEAF
    /\ leaf_node_num_cells(RootNode) = LEAF_NODE_MAX_CELLS
    /\ inserted' # inserted

\* the page number of child child_num of an internal node
ChildOf(node, child_num) == ReadU32(node, internal_node_child(node, child_num))

(***************************************************************************)
(* The properties.                                                         *)
(***************************************************************************)

\* C1: when the root is a single leaf and the rows were inserted through
\* table_find and leaf_node_insert under distinct keys, a scan from
\* table_start by cursor_advance up to end_of_table has read the keys in
\* strictly ascending order, and they are the sorted inserted keys.
C1_ScanYieldsSortedKeys ==
    (RootCached /\ get_node_type(RootNode) = NODE_LEAF
       /\ cursor.active /\ cursor.end_of_table)
    => /\ scanned = SortedSeq(InsertedKeys)
       /\ \A i \in 1..(Len(scanned) - 1) : scanned[i] < scanned[i + 1]

\* a scan of a full root leaf has reached the end
C1_Witness ==
    /\ RootCached /\ get_node_type(RootNode) = NODE_LEAF
    /\ cursor.active /\ cursor.end_of_table
    /\ Len(scanned) = LEAF_NODE_MAX_CELLS
    /\ Cardinality(inserted) = LEAF_NODE_MAX_CELLS

\* the root is an internal node with one key and two children, both leaves;
\* the key is the greatest key of the left child and every key of the right
\* child is greater
RootSplitShape(pg, root_page_num) ==
    LET root == pg.pages[root_page_num]
        left == ChildOf(root, 0)
        right == ChildOf(root, 1)
        key == ReadU32(root, internal_node_key(0))
    IN  /\ get_node_type(root) = NODE_INTERNAL
        /\ internal_node_num_keys(root) = 1
        /\ left \in PageNums /\ right \in PageNums /\ left # right
        /\ pg.pages[left] # NULL /\ pg.pages[right] # NULL
        /\ get_node_type(pg.pages[left]) = NODE_LEAF
        /\ get_node_type(pg.pages[right]) = NODE_LEAF
        /\ key = MaxOf(SeqRange(LeafKeys(pg.pages[left])))
        /\ MinOf(SeqRange(LeafKeys(pg.pages[right]))) > key

\* C2: the insert of one more row than LEAF_NODE_MAX_CELLS into a root leaf
\* (distinct keys, any order) leaves the root an internal node with one key
\* and two children, the key being the left child's maximum key and the
\* right child's minimum key being greater.
C2_RootSplitShape ==
    [][FullRootInsertStep => RootSplitShape(pager', table.root_page_num)]_vars

\* C3: after the root split the cells of the left child followed by those
\* of the right child are the inserted (key, row) pairs in key order, each
\* record read through leaf_node_value and decoded being the row inserted
\* under the cell's key.
C3_SplitKeepsAllRows ==
    [][FullRootInsertStep =>
        LET root == pager'.pages[table.root_page_num]
        IN  /\ get_node_type(root) = NODE_INTERNAL
            /\ LeafPairs(pager'.pages[ChildOf(root, 0)])
                 \o LeafPairs(pager'.pages[ChildOf(root, 1)])
               = SortedPairs(inserted')]_vars

\* C4: on a leaf whose keys are strictly ascending leaf_node_find returns a
\* cursor on that page at the cell that holds the key if the key is stored,
\* and else at the number of stored keys smaller than the key; for the keys
\* 2, 4, 6, 8: 5 -> 2, 6 -> 2, 0 -> 0, 9 -> 4.
C4_LeafNodeFind ==
    (last_op.name = "leaf_node_find" /\ fatal = "none")
    => LET ks == LeafKeys(pager.pages[last_op.page_num])
           key == last_op.key
           smaller == Cardinality({i \in 1..Len(ks) : ks[i] < key})
       IN  /\ cursor.active
           /\ cursor.page_num = last_op.page_num
           /\ cursor.cell_num \in 0..Len(ks)
           /\ IF \E i \in 1..Len(ks) : ks[i] = key
              THEN cursor.cell_num < Len(ks) /\ ks[cursor.cell_num + 1] = key
              ELSE cursor.cell_num = smaller
           /\ ks = <<2, 4, 6, 8>> =>
                /\ key = 5 => cursor.cell_num = 2
                /\ key = 6 => cursor.cell_num = 2
                /\ key = 0 => cursor.cell_num = 0
                /\ key = 9 => cursor.cell_num = 4

\* the leaf 2, 4, 6, 8 has been searched for 5
C4_Witness ==
    /\ last_op.name = "leaf_node_find" /\ fatal = "none"
    /\ LeafKeys(pager.pages[last_op.page_num]) = <<2, 4, 6, 8>>
    /\ last_op.key = 5
    /\ cursor.cell_num = 2

\* a step in which the pager session calls get_unused_page_num
GetUnusedStep ==
    last_op'.name = "get_unused_page_num" /\ p_calls' = p_calls + 1

\* C5 as stated: get_unused_page_num called again with no get_page of the
\* number it returned in between returns the same number, and changes no
\* pager state; once get_page has materialized that number n, the next
\* get_unused_page_num returns n + 1.
C5_AsStated ==
    [][GetUnusedStep =>
        /\ pager' = pager /\ file' = file
        /\ (h_unused.num >= 0 /\ ~h_unused.own) => last_op'.ret = h_unused.num
        /\ (h_unused.num >= 0 /\ h_unused.own) => last_op'.ret = h_unused.num + 1]_vars

\* C5, amended: the same, provided no get_page of a page number above the
\* returned one came in between.
C5_UnusedPageNum ==
    [][GetUnusedStep =>
        /\ pager' = pager /\ file' = file
        /\ (h_unused.num >= 0 /\ ~h_unused.own /\ ~h_unused.above)
             => last_op'.ret = h_unused.num
        /\ (h_unused.num >= 0 /\ h_unused.own /\ ~h_unused.above)
             => last_op'.ret = h_unused.num + 1]_vars

\* get_unused_page_num has been called twice with no get_page of the
\* returned number or of a higher one in between
C5_Witness ==
    last_op.name = "get_unused_page_num" /\ h_unused.twice

\* C6: pager_open on a file whose length is not a multiple of PAGE_SIZE
\* ends in the fatal corruption error with no page read and no pager
\* returned; on a length that is a multiple it returns a pager with an
\* empty cache and num_pages = length / PAGE_SIZE.  (A file that cannot be
\* opened at all ends pager_open before the length is looked at.)
C6_PagerOpen ==
    (last_op.name = "pager_open" /\ fatal # "open_failed")
    => IF Len(file) % PAGE_SIZE # 0
       THEN fatal = "corrupt_file" /\ ~pager.open /\ Cached(pager) = {}
       ELSE /\ fatal = "none"
            /\ pager.open
            /\ Cached(pager) = {}
            /\ pager.num_pages = Len(file) \div PAGE_SIZE
            /\ pager.file_length = Len(file)

\* pager_open has ended in the corruption error on a file of PAGE_SIZE + 1
\* bytes
C6_Witness ==
    /\ last_op.name = "pager_open"
    /\ Len(file) = PAGE_SIZE + 1
    /\ fatal = "corrupt_file"

\* C7: when leaf_node_insert into a full leaf that is not the root ends in
\* the unimplemented-path error, the failed insert has changed no page (the
\* old leaf keeps its cell count and contents) and has materialized no new
\* page.
C7_FailedInsertChangesNothing ==
    [][fatal' = "unimplemented_parent_update" => pager' = pager]_vars

\* C8: deserialize_row(serialize_row(r)) has the id of r and the logical
\* content of the username and the email of r, for every length of the
\* texts up to the field width.
C8_RoundTrip ==
    c_pc = "deserialized"
    => /\ c_dst.id = c_src.id
       /\ Logical(c_dst.username) = Logical(c_src.username)
       /\ Logical(c_dst.email) = Logical(c_src.email)

\* a row whose username fills the field and whose email has bytes after
\* its NUL has gone through the codec
C8_Witness ==
    /\ c_pc = "deserialized"
    /\ Len(Logical(c_src.username)) = USERNAME_SIZE
    /\ c_dst.email # c_src.email
    /\ c_src.id > 65535

\* the root page as leaf_node_split_and_insert hands it to create_new_root
\* in a step that splits the root
PrePromotionRoot ==
    LET p == CHOOSE p \in inserted' \ inserted : TRUE
        cell_num == BinarySearch(RootNode, p.key, 0, leaf_node_num_cells(RootNode))
    IN  SplitNodes(RootNode, Fill(PAGE_SIZE, 0), cell_num, p.row).old

\* C9: no insert changes root_page_num; after a root split the page at
\* root_page_num is an internal node with the root flag set, and the content
\* the root page had before the promotion (the left half of the split) is,
\* byte for byte but for the cleared root flag, on a newly allocated page,
\* the left child.
C9_RootPageStays ==
    [][/\ table.open => table' = table
       /\ FullRootInsertStep =>
            LET root == pager'.pages[table.root_page_num]
                left == ChildOf(root, 0)
            IN  /\ get_node_type(root) = NODE_INTERNAL
                /\ is_node_root(root)
                /\ left \in PageNums
                /\ left # table.root_page_num
                /\ left >= pager.num_pages
                /\ pager.pages[left] = NULL
                /\ ~is_node_root(pager'.pages[left])
                /\ pager'.pages[left] = set_node_root(PrePromotionRoot, FALSE)]_vars

\* the root has been split: it is an internal root and its left child is a
\* leaf that is no root
C9_Witness ==
    /\ RootCached
    /\ get_node_type(RootNode) = NODE_INTERNAL
    /\ is_node_root(RootNode)
    /\ pager.pages[ChildOf(RootNode, 0)] # NULL
    /\ get_node_type(pager.pages[ChildOf(RootNode, 0)]) = NODE_LEAF
    /\ ~is_node_root(pager.pages[ChildOf(RootNode, 0)])

\* C10: on a cache miss, get_page of a page number at or beyond the page
\* extent of the file returns a buffer whose every byte is zero.
C10_FreshPageZeroed ==
    [][(/\ last_op'.name = "get_page" /\ p_calls' = p_calls + 1
        /\ fatal' = "none"
        /\ pager.pages[last_op'.page_num] = NULL
        /\ last_op'.page_num >= pager.file_length \div PAGE_SIZE)
       => pager'.pages[last_op'.page_num] = Fill(PAGE_SIZE, 0)]_vars

\* C11: table_find on a root that is a leaf returns what leaf_node_find
\* returns on the root page; on a root that is an internal node it ends in the
\* fatal unimplemented-search error, no cursor is returned, the file and the
\* bytes of every cached page are as before, and the only page that can have
\* entered the cache is the root, as the file has it.
C11_TableFind ==
    [][(last_op'.name = "table_find" /\ fatal' # "read_error") =>
        LET root_page_num == table.root_page_num
            root == pager'.pages[root_page_num]
            lf == leaf_node_find(pager, file, root_page_num, last_op'.key, 0, TRUE)
        IN  /\ file' = file
            /\ IF get_node_type(root) = NODE_LEAF
               THEN /\ fatal' = "none"
                    /\ pager' = lf.pager
                    /\ cursor'.active
                    /\ cursor'.page_num = lf.cursor.page_num
                    /\ cursor'.cell_num = lf.cursor.cell_num
               ELSE /\ fatal' = "unimplemented_internal_search"
                    /\ cursor' = cursor
                    /\ ~cursor'.active
                    /\ \A n \in Cached(pager) : pager'.pages[n] = pager.pages[n]
                    /\ \A n \in Cached(pager') \ Cached(pager) :
                         /\ n = root_page_num
                         /\ pager'.pages[n] = ReadBytes(file, n * PAGE_SIZE, PAGE_SIZE)
                    /\ pager'.num_pages = pager.num_pages]_vars

\* table_find has ended in the unimplemented-search error on a split root
\* that it had to fetch from the file
C11_Witness ==
    /\ last_op.name = "table_find"
    /\ fatal = "unimplemented_internal_search"
    /\ ~cursor.active
    /\ Cached(pager) = {table.root_page_num}
    /\ get_node_type(RootNode) = NODE_INTERNAL

\* a step in which the pager session calls get_page
GetPageStep ==
    last_op'.name = "get_page" /\ p_calls' = p_calls + 1

\* C12: get_page of a page number at or above TABLE_MAX_PAGES ends in the
\* fatal out-of-bounds error with the page cache, num_pages and the file as
\* they were; get_page of a page number below TABLE_MAX_PAGES passes the
\* bounds test and returns the buffer of PAGE_SIZE bytes cached under that
\* number, the one error left to it being a failed read() of a page that is
\* not cached and lies within the file.
C12_GetPageBounds ==
    [][GetPageStep =>
        LET page_num == last_op'.page_num
        IN  IF page_num >= TABLE_MAX_PAGES
            THEN fatal' = "page_out_of_bounds" /\ pager' = pager /\ file' = file
            ELSE /\ fatal' \in {"none", "read_error"}
                 /\ fatal' = "none" =>
                      /\ pager'.pages[page_num] # NULL
                      /\ Len(pager'.pages[page_num]) = PAGE_SIZE
                 /\ fatal' = "read_error" =>
                      /\ pager.pages[page_num] = NULL
                      /\ page_num * PAGE_SIZE < Len(file)
                      /\ pager' = pager]_vars

\* get_page(TABLE_MAX_PAGES) has ended in the out-of-bounds error after
\* get_page(TABLE_MAX_PAGES - 1) had returned
C12_Witness ==
    /\ last_op.name = "get_page"
    /\ last_op.page_num = TABLE_MAX_PAGES
    /\ fatal = "page_out_of_bounds"
    /\ pager.pages[TABLE_MAX_PAGES - 1] # NULL

\* a step in which the pager session calls pager_flush
PagerFlushStep ==
    last_op'.name = "pager_flush" /\ p_calls' = p_calls + 1

\* C13: pager_flush(n) ends in the fatal null-page error with the file as it
\* was when page n is not in the cache; when it is, the call either ends in
\* the seek or the write error with the file as it was, or returns with the
\* PAGE_SIZE bytes of the cached buffer of page n in the file at offset
\* n * PAGE_SIZE, every other page the file had as it was, and nothing but
\* zero bytes in between if the file had to grow.  The cache is never
\* changed.
C13_PagerFlush ==
    [][PagerFlushStep =>
        LET n == last_op'.page_num
        IN  /\ pager' = pager
            /\ IF pager.pages[n] = NULL
               THEN fatal' = "flush_null_page" /\ file' = file
               ELSE /\ fatal' \in {"none", "seek_error", "write_error"}
                    /\ fatal' # "none" => file' = file
                    /\ fatal' = "none" =>
                         /\ Len(file') = IF Len(file) > (n + 1) * PAGE_SIZE
                                         THEN Len(file) ELSE (n + 1) * PAGE_SIZE
                         /\ FilePage(file', n) = pager.pages[n]
                         /\ \A m \in FilePageNums(file) \ {n} :
                              FilePage(file', m) = FilePage(file, m)
                         /\ \A m \in FilePageNums(file') \ (FilePageNums(file) \cup {n}) :
                              FilePage(file', m) = Fill(PAGE_SIZE, 0)]_vars

\* page 1, initialized as a leaf in a buffer that malloc did not zero, has
\* been flushed behind page 0
C13_Witness ==
    /\ last_op.name = "pager_flush"
    /\ last_op.page_num = 1
    /\ fatal = "none"
    /\ pager.pages[1] = initialize_leaf_node(Fill(PAGE_SIZE, 85))
    /\ FilePage(file, 1) = pager.pages[1]
    /\ Len(file) = 2 * PAGE_SIZE

\* C14: a cursor_advance that leaves the last cell of the left leaf of a
\* split root, where the next row is on the right leaf, ends in the fatal
\* unimplemented-path error.
C14_AdvanceAcrossLeaves ==
    [][(/\ last_op'.name = "cursor_advance"
        /\ cursor.page_num = ChildOf(FilePage(file, table.root_page_num), 0)
        /\ cursor.cell_num + 1 = leaf_node_num_cells(pager.pages[cursor.page_num])
        /\ leaf_node_num_cells(FilePage(file, ChildOf(FilePage(file, table.root_page_num), 1))) > 0)
       => fatal' = "unimplemented_cursor_advance"]_vars

\* page n as the program has it: the cached buffer, or else the page of the
\* file
PageNow(n) == IF pager.pages[n] # NULL THEN pager.pages[n] ELSE FilePage(file, n)

\* the pages whose root flag is set
RootFlagged == {n \in 0..(pager.num_pages - 1) : is_node_root(PageNow(n))}

\* C15: in every state of an open table the root flag is set on exactly one
\* page, the page root_page_num; after a root split neither the left nor the
\* right child has it.
C15_OneRootFlag ==
    table.open =>
        /\ RootFlagged = {table.root_page_num}
        /\ (RootCached /\ get_node_type(RootNode) = NODE_INTERNAL) =>
              /\ ~is_node_root(PageNow(ChildOf(RootNode, 0)))
              /\ ~is_node_root(PageNow(ChildOf(RootNode, 1)))

\* the root has been split into pages that malloc did not zero, and a row
\* has then been inserted into one of the two leaves
C15_Witness ==
    /\ RootCached
    /\ get_node_type(RootNode) = NODE_INTERNAL
    /\ pager.num_pages = 3
    /\ Cardinality(inserted) = LEAF_NODE_MAX_CELLS + 2
    /\ pager.pages[ChildOf(RootNode, 1)][PAGE_SIZE] = 85
    /\ RootFlagged = {table.root_page_num}

\* the leaf pages of the tree: the root if it is a leaf, else its children
TreeLeafPages ==
    IF get_node_type(RootNode) = NODE_LEAF
    THEN {table.root_page_num}
    ELSE {ChildOf(RootNode, 0), ChildOf(RootNode, 1)}

\* C16: after any sequence of inserts with distinct keys, each positioned
\* by leaf_node_find, every leaf page of the tree has at most
\* LEAF_NODE_MAX_CELLS cells and its cells 0 .. count-1 hold strictly
\* ascending keys.
C16_LeavesSorted ==
    RootCached =>
        \A n \in TreeLeafPages :
            LET ks == LeafKeys(pager.pages[n])
            IN  /\ Len(ks) <= LEAF_NODE_MAX_CELLS
                /\ \A i \in 1..(Len(ks) - 1) : ks[i] < ks[i + 1]

\* cell i of a leaf: its LEAF_NODE_CELL_SIZE bytes
CellBytes(node, i) == ReadBytes(node, leaf_node_cell(i), LEAF_NODE_CELL_SIZE)

\* the ROW_SIZE bytes serialize_row makes of a row
Serialized(row) == serialize_row(row, Fill(ROW_SIZE, 0), 0)

\* a step in which leaf_node_insert is called on its own
LeafNodeInsertStep == last_op'.name = "leaf_node_insert" /\ inserted = {}

\* the row handed to leaf_node_insert in such a step
InsertedRow == (CHOOSE p \in inserted' : TRUE).row

\* C17: leaf_node_insert at cell c of a leaf with n < LEAF_NODE_MAX_CELLS
\* cells, 0 <= c <= n, returns with the cell count n + 1, the key and the
\* serialized record in cell c, the cells 0 .. c-1 as they were and each
\* cell i+1 equal to the old cell i for c <= i < n; the rest of the page,
\* every other page, the pager fields, the file and the cursor are as
\* before.
C17_LeafNodeInsert ==
    [][(/\ LeafNodeInsertStep
        /\ leaf_node_num_cells(pager.pages[cursor.page_num]) < LEAF_NODE_MAX_CELLS)
       => LET old == pager.pages[cursor.page_num]
              new == pager'.pages[cursor.page_num]
              n == leaf_node_num_cells(old)
              c == cursor.cell_num
          IN  /\ fatal' = "none"
              /\ leaf_node_num_cells(new) = n + 1
              /\ ReadU32(new, leaf_node_key(c)) = last_op'.key
              /\ ReadBytes(new, leaf_node_value(c), ROW_SIZE) = Serialized(InsertedRow)
              /\ \A i \in 0..(c - 1) : CellBytes(new, i) = CellBytes(old, i)
              /\ \A i \in c..(n - 1) : CellBytes(new, i + 1) = CellBytes(old, i)
              /\ ReadBytes(new, 0, COMMON_NODE_HEADER_SIZE)
                   = ReadBytes(old, 0, COMMON_NODE_HEADER_SIZE)
              /\ SubSeq(new, leaf_node_cell(n + 1) + 1, PAGE_SIZE)
                   = SubSeq(old, leaf_node_cell(n + 1) + 1, PAGE_SIZE)
              /\ \A m \in PageNums \ {cursor.page_num} : pager'.pages[m] = pager.pages[m]
              /\ pager'.num_pages = pager.num_pages
              /\ pager'.file_length = pager.file_length
              /\ file' = file
              /\ cursor' = cursor]_vars

\* a row whose id is not its key has been inserted at cell 1 of a leaf of
\* three cells that is not the root
C17_Witness ==
    /\ last_op.name = "leaf_node_insert"
    /\ fatal = "none"
    /\ last_op.ret = 1
    /\ last_op.page_num # table.root_page_num
    /\ leaf_node_num_cells(pager.pages[last_op.page_num]) = LEAF_NODE_MAX_CELLS
    /\ \E p \in inserted : p.row.id # p.key

\* a step in which leaf_node_insert is called on a full leaf, so that it
\* goes to leaf_node_split_and_insert
SplitStep ==
    /\ LeafNodeInsertStep
    /\ leaf_node_num_cells(pager.pages[cursor.page_num]) >= LEAF_NODE_MAX_CELLS

\* the page that holds the left node when the split is over: the old page,
\* or the left child if the old page was the root and has been promoted
LeftPageAfterSplit ==
    IF fatal' = "none"
    THEN ChildOf(pager'.pages[table.root_page_num], 0)
    ELSE cursor.page_num

\* the page of the new (right) node of the split
RightPageAfterSplit == get_unused_page_num(pager)

\* C18: when leaf_node_split_and_insert is over, be it by returning (root)
\* or by the unimplemented-parent-update exit (non-root), the left node has
\* LEAF_NODE_LEFT_SPLIT_COUNT cells and the new right node
\* LEAF_NODE_RIGHT_SPLIT_COUNT, whatever the insertion index and the key; both
\* counts are at least 1 and sum to LEAF_NODE_MAX_CELLS + 1.
C18_SplitCounts ==
    [][SplitStep =>
        /\ fatal' \in {"none", "unimplemented_parent_update"}
        /\ fatal' = "none" <=> cursor.page_num = table.root_page_num
        /\ leaf_node_num_cells(pager'.pages[LeftPageAfterSplit]) = LEAF_NODE_LEFT_SPLIT_COUNT
        /\ leaf_node_num_cells(pager'.pages[RightPageAfterSplit]) = LEAF_NODE_RIGHT_SPLIT_COUNT
        /\ LEAF_NODE_LEFT_SPLIT_COUNT >= 1
        /\ LEAF_NODE_RIGHT_SPLIT_COUNT >= 1
        /\ LEAF_NODE_LEFT_SPLIT_COUNT + LEAF_NODE_RIGHT_SPLIT_COUNT = LEAF_NODE_MAX_CELLS + 1]_vars

\* a full leaf below the root has been split by an insert at cell 0
C18_Witness ==
    /\ last_op.name = "leaf_node_insert"
    /\ last_op.ret = 0
    /\ fatal = "unimplemented_parent_update"
    /\ last_op.page_num # table.root_page_num
    /\ leaf_node_num_cells(pager.pages[last_op.page_num]) = LEAF_NODE_LEFT_SPLIT_COUNT
    /\ leaf_node_num_cells(pager.pages[pager.num_pages - 1]) = LEAF_NODE_RIGHT_SPLIT_COUNT

\* C19: when a split inserts (key, row) at insertion index p, the cell at
\* position p of the partitioned result (index p of the left node if p is
\* below the left count, else index p - left count of the right node) has
\* the inserted key in its key field and the serialization of the inserted
\* row in its record field, for every p and also when the key is not the
\* row's id.
C19_SplitStoresKeyAndRow ==
    [][SplitStep =>
        LET p == cursor.cell_num
            in_left == p < LEAF_NODE_LEFT_SPLIT_COUNT
            node == pager'.pages[IF in_left THEN LeftPageAfterSplit ELSE RightPageAfterSplit]
            index == IF in_left THEN p ELSE p - LEAF_NODE_LEFT_SPLIT_COUNT
        IN  /\ ReadU32(node, leaf_node_key(index)) = last_op'.key
            /\ ReadBytes(node, leaf_node_value(index), ROW_SIZE) = Serialized(InsertedRow)]_vars

\* C20: the cursor of table_start on a root leaf of n cells is on the root
\* page; it starts at cell 0, each cursor_advance moves it one cell on, and
\* the cells it has stood on before reaching the end are 0, 1, ... in that
\* order; end_of_table is true exactly when the cell index has reached n,
\* that is from the start if n = 0, else after n advances and not before,
\* and it stays true under further advances.
C20_ScanOfRootLeaf ==
    (cursor.active /\ RootCached) =>
        LET n == leaf_node_num_cells(RootNode)
            visited == IF cursor.cell_num < n THEN cursor.cell_num ELSE n
        IN  /\ cursor.page_num = table.root_page_num
            /\ cursor.end_of_table <=> cursor.cell_num >= n
            /\ scanned = [i \in 1..visited |-> ReadU32(RootNode, leaf_node_key(i - 1))]

\* the scan of a full root leaf has gone through its cells, and
\* cursor_advance has been called once more at the end
C20_Witness ==
    /\ cursor.active /\ RootCached
    /\ leaf_node_num_cells(RootNode) = LEAF_NODE_MAX_CELLS
    /\ cursor.cell_num = LEAF_NODE_MAX_CELLS + 1
    /\ cursor.end_of_table
    /\ Len(scanned) = LEAF_NODE_MAX_CELLS

\* C21: in a session of pager_open, get_page, get_unused_page_num and
\* pager_flush calls (and writes to the pages handed out), num_pages never
\* decreases and is greater than the number of every cached page; a
\* get_page(n) that returns leaves num_pages at n + 1 if n was at or above
\* it and unchanged otherwise, and a get_page that ends the process (page
\* number out of bounds, failed read) leaves it unchanged.
C21_Watermark ==
    [][/\ pager'.num_pages >= pager.num_pages
       /\ \A n \in Cached(pager') : n < pager'.num_pages
       /\ GetPageStep =>
            pager'.num_pages = IF fatal' = "none" /\ last_op'.page_num >= pager.num_pages
                               THEN last_op'.page_num + 1
                               ELSE pager.num_pages]_vars

\* get_page(2) has raised num_pages of a one-page file to 3, and get_page(0)
\* after it has left it there
C21_Witness ==
    /\ last_op.name = "get_page"
    /\ last_op.page_num = 0
    /\ fatal = "none"
    /\ Len(file) = PAGE_SIZE
    /\ Cached(pager) = {0, 2}
    /\ pager.num_pages = 3

\* the cached pages whose bytes a step changes
ChangedPages == {n \in Cached(pager) : pager'.pages[n] # pager.pages[n]}

\* C22: a page that is in the cache stays in it: no step takes a page out
\* of the cache; a get_page of a cached page returns with the pager, and so
\* the buffer and its bytes as last written, exactly as before, whatever the
\* file has for the page; pager_flush changes nothing in the pager; and an
\* insert, with or without a split, writes to the one cached page it inserts
\* into and leaves the bytes of every other cached page alone.
C22_PagesStayCached ==
    [][/\ Cached(pager) \subseteq Cached(pager')
       /\ (GetPageStep /\ last_op'.page_num \in Cached(pager)) =>
             pager' = pager /\ fatal' = "none" /\ file' = file
       /\ PagerFlushStep => pager' = pager
       /\ p_calls' # p_calls => ChangedPages = {}
       /\ p_calls' = p_calls => Cardinality(ChangedPages) <= 1]_vars

\* the root has been split after it was read from the file, get_page of the
\* root page has been called, and the cache still has the root as the split
\* left it, not as the file has it
C22_Witness ==
    /\ last_op.name = "get_page"
    /\ last_op.page_num = table.root_page_num
    /\ fatal = "none"
    /\ inserted # {}
    /\ Cached(pager) = {0, 1, 2}
    /\ get_node_type(pager.pages[0]) = NODE_INTERNAL
    /\ get_node_type(FilePage(file, 0)) = NODE_LEAF

\* an insert through the root leaf that ends with the root an internal node
RootSplitStep ==
    /\ inserted' # inserted
    /\ fatal' = "none"
    /\ ~(RootCached /\ get_node_type(RootNode) = NODE_INTERNAL)
    /\ get_node_type(pager'.pages[table.root_page_num]) = NODE_INTERNAL

\* C23: a root split takes exactly two new pages: the left and the right
\* child have different page numbers, neither is root_page_num nor a page
\* that was in the cache before the split, no other page enters the cache
\* but the root itself, and the watermark num_pages ends exactly 2 above
\* its value before the split.
C23_RootSplitTakesTwoPages ==
    [][RootSplitStep =>
        LET root == pager'.pages[table.root_page_num]
            left == ChildOf(root, 0)
            right == ReadU32(root, internal_node_right_child)
        IN  /\ left # right
            /\ left # table.root_page_num /\ right # table.root_page_num
            /\ left \notin Cached(pager) /\ right \notin Cached(pager)
            /\ Cached(pager') = Cached(pager) \cup {table.root_page_num, left, right}
            /\ pager'.num_pages = pager.num_pages + 2]_vars

\* the root has been split when page 1 had been materialized by get_page:
\* the children are the pages 3 and 2
C23_Witness ==
    /\ fatal = "none"
    /\ inserted # {}
    /\ RootCached
    /\ get_node_type(RootNode) = NODE_INTERNAL
    /\ ChildOf(RootNode, 0) = 3
    /\ ReadU32(RootNode, internal_node_right_child) = 2
    /\ Cached(pager) = {0, 1, 2, 3}
    /\ pager.num_pages = TABLE_MAX_PAGES

\* whether the root of the open table of pager pg is an internal node
RootInternal(pg, tb) ==
    tb.open /\ get_node_type(pg.pages[tb.root_page_num]) = NODE_INTERNAL

\* the number of cells the leaves of the tree hold
TreeCells(pg, tb) ==
    LET root == pg.pages[tb.root_page_num]
    IN  IF get_node_type(root) = NODE_LEAF
        THEN leaf_node_num_cells(root)
        ELSE leaf_node_num_cells(pg.pages[ChildOf(root, 0)])
             + leaf_node_num_cells(pg.pages[ChildOf(root, 1)])

====
